---- MODULE Spec2Model ----
(***************************************************************************)
(* Model of terraform-provider-jiraassets: the provider's Configure, the   *)
(* jiraassets_object resource (Create/Read/Update/Delete/ImportState) and  *)
(* the jiraassets_object_schema data source (Read).                        *)
(*                                                                         *)
(* Three specifications share the module, one per component:               *)
(*   SpecProvider   JiraAssetsProvider.Configure                           *)
(*   Spec           objectResource handlers against a remote object        *)
(*   SpecSchema     objectSchemaDataSource.Read                            *)
(***************************************************************************)
EXTENDS Integers, Sequences, FiniteSets, TLC

VARIABLES
    \* ---- provider (JiraAssetsProvider.Configure) ----
    config,          \* req.Config decoded into JiraAssetsProviderModel
    env,             \* the three JIRAASSETS_* environment variables
    newFails,        \* whether assets.New returned a non-nil error
    resolved,        \* the locals workspaceId, user, password once computed
    cfgDiags,        \* resp.Diagnostics of Configure
    cfgPc,           \* "start", "returned" or "fault" (nil dereference)
    client,          \* the *assets.Client held by Configure
    ResourceData,    \* resp.ResourceData
    DataSourceData,  \* resp.DataSourceData
    \* ---- jiraassets_object resource ----
    state,           \* the persisted Terraform state of the object (Nil: none)
    remote,          \* the object held by the Assets API (Nil: none)
    applied,         \* the configuration of the last successful apply (Nil: none)
    sent,            \* the body of the Create or Update request of that apply
    omitted,         \* attribute type ids the state tracked and that apply left out
    call,            \* the last handler the host invoked
    diags,           \* resp.Diagnostics of that invocation
    outcome,         \* "none", "returned" or "fault" (index out of range)
    requests,        \* the API calls that invocation issued, in order (method, id)
    response,        \* the object the API returned to that invocation (or Nil)
    failures,        \* how many of those API calls returned an error
    \* ---- jiraassets_object_schema data source ----
    dsConfig,        \* req.Config of the data source: the id to look up
    dsReply,         \* what ObjectSchema.Get returned: err, status code, schema
    dsState,         \* resp.State of the data source Read (Nil: not set)
    dsDiags,         \* resp.Diagnostics of the data source Read
    dsRequests,      \* the API calls the data source Read issued, in order
    dsPc             \* "start" or "returned"

providerVars == <<config, env, newFails, resolved, cfgDiags, cfgPc, client,
                  ResourceData, DataSourceData>>

objectVars == <<state, remote, applied, sent, omitted, call, diags, outcome, requests,
                response, failures>>

schemaVars == <<dsConfig, dsReply, dsState, dsDiags, dsRequests, dsPc>>

vars == <<providerVars, objectVars, schemaVars>>

(***************************************************************************)
(* types.String: a value is null, unknown or known.                        *)
(***************************************************************************)
StringNull == [state |-> "null", value |-> ""]
StringUnknown == [state |-> "unknown", value |-> ""]
StringValue(s) == [state |-> "known", value |-> s]
IsNull(v) == v.state = "null"
IsUnknown(v) == v.state = "unknown"
ValueString(v) == IF v.state = "known" THEN v.value ELSE ""

Nil == [kind |-> "nil"]

\* Strings a practitioner may write in the provider block / export in the shell.
ConfigStrings == {"", "cfg"}
EnvStrings == {"", "env"}
ConfigFieldValues == {StringNull, StringUnknown} \cup {StringValue(s) : s \in ConfigStrings}

JiraAssetsProviderModel ==
    [WorkspaceId : ConfigFieldValues, User : ConfigFieldValues, Password : ConfigFieldValues]

Environment ==
    [JIRAASSETS_WORKSPACE_ID : EnvStrings, JIRAASSETS_USER : EnvStrings,
     JIRAASSETS_PASSWORD : EnvStrings]

\* diag.Diagnostic of error severity: the attribute path ("" for AddError) and summary.
AttributeError(p, summary) == [severity |-> "error", path |-> p, summary |-> summary]
Error(summary) == [severity |-> "error", path |-> "", summary |-> summary]
HasError(ds) == \E i \in 1..Len(ds) : ds[i].severity = "error"

\* provider.go 93-118: one error per unknown configuration value.
UnknownDiags(c) ==
    (IF IsUnknown(c.WorkspaceId)
        THEN <<AttributeError("workspaceId", "Unknown Assets Workspace Id")>> ELSE <<>>)
    \o (IF IsUnknown(c.User)
        THEN <<AttributeError("user", "Unknown Assets User")>> ELSE <<>>)
    \o (IF IsUnknown(c.Password)
        THEN <<AttributeError("password", "Unknown Assets Password")>> ELSE <<>>)

\* A resolution that lets the environment win over the configuration.
ResolveEnvFirst(cfgValue, envValue) ==
    IF envValue # "" THEN envValue ELSE ValueString(cfgValue)

\* provider.go 126-140: default to the environment, override with the
\* configuration value when it is not null.
Resolve(cfgValue, envValue) ==
    IF ~IsNull(cfgValue) THEN ValueString(cfgValue) ELSE envValue

ResolveAll(c, e) ==
    [workspaceId |-> Resolve(c.WorkspaceId, e.JIRAASSETS_WORKSPACE_ID),
     user |-> Resolve(c.User, e.JIRAASSETS_USER),
     password |-> Resolve(c.Password, e.JIRAASSETS_PASSWORD)]

\* A validation that stops at the first missing value.
MissingDiagsFirstOnly(r) ==
    IF r.workspaceId = ""
        THEN <<AttributeError("workspaceId", "Missing Assets API Workspace Id")>>
    ELSE IF r.user = ""
        THEN <<AttributeError("user", "Missing Assets API User")>>
    ELSE IF r.password = ""
        THEN <<AttributeError("password", "Missing Assets API Password")>>
    ELSE <<>>

\* provider.go 144-172: one error per resolved value that is empty.
MissingDiags(r) ==
    (IF r.workspaceId = ""
        THEN <<AttributeError("workspaceId", "Missing Assets API Workspace Id")>> ELSE <<>>)
    \o (IF r.user = ""
        THEN <<AttributeError("user", "Missing Assets API User")>> ELSE <<>>)
    \o (IF r.password = ""
        THEN <<AttributeError("password", "Missing Assets API Password")>> ELSE <<>>)

\* assets.New(nil, ""): a client without credentials, or nil with an error.
NewClient == [kind |-> "client", authSet |-> FALSE, user |-> "", password |-> ""]
SetBasicAuth(c, user, password) ==
    [kind |-> "client", authSet |-> TRUE, user |-> user, password |-> password]
JiraAssetsProviderClient(c, workspaceId) ==
    [kind |-> "providerClient", client |-> c, workspaceId |-> workspaceId]

NotResolved == [kind |-> "nil"]

\* The response of Configure when it returns before creating the client.
ConfigureAbort(ds, r) ==
    [diags |-> ds, pc |-> "returned", resolved |-> r, client |-> Nil,
     ResourceData |-> Nil, DataSourceData |-> Nil]

\* provider.go 80-208, the whole handler.  req.Config.Get decodes three
\* optional strings into three types.String and adds no diagnostic.
ConfigureResult(c, e, newErr) ==
    IF HasError(UnknownDiags(c))                                   \* 120-122
        THEN ConfigureAbort(UnknownDiags(c), NotResolved)
    ELSE LET r == ResolveAll(c, e)                                 \* 126-140
             d == UnknownDiags(c) \o MissingDiags(r)               \* 144-172
         IN  IF HasError(d)                                        \* 174-176
                 THEN ConfigureAbort(d, r)
             ELSE IF newErr
                 \* 188-193 add the error and do not return; 196 then
                 \* dereferences the nil client.
                 THEN [diags |-> d \o <<Error("Unable to create Assets client")>>,
                       pc |-> "fault", resolved |-> r, client |-> Nil,
                       ResourceData |-> Nil, DataSourceData |-> Nil]
             ELSE LET cl == SetBasicAuth(NewClient, r.user, r.password)   \* 196
                      pcl == JiraAssetsProviderClient(cl, r.workspaceId)  \* 199-202
                  IN  [diags |-> d, pc |-> "returned", resolved |-> r, client |-> cl,
                       ResourceData |-> pcl, DataSourceData |-> pcl]      \* 204-205

(***************************************************************************)
(* The jiraassets_object resource.                                         *)
(***************************************************************************)
MaxAttributes == 2    \* attributes a configuration declares at most
MaxValues == 2        \* values a remote attribute entry carries at most

BoolNull == [state |-> "null", value |-> FALSE]
BoolValue(b) == [state |-> "known", value |-> b]
ValueBool(v) == IF v.state = "known" THEN v.value ELSE FALSE

TypeIds == {"117", "118"}
AttrTypeIds == {"1087", "1090"}
AttrValues == {"My Phone", "1234657890"}
\* ids a practitioner may import, the ids the Assets API assigns, and its
\* two readings of the clock
ObjectIds == {"1", "2"}
AssignedIds == {"1"}
CreationTime == "t0"
LaterTime == "t1"

\* objectAttrResourceModel
objectAttrResourceModel(k, v) == [AttrTypeId |-> StringValue(k), AttrValue |-> StringValue(v)]
ConfigAttributes == {objectAttrResourceModel(k, v) : k \in AttrTypeIds, v \in AttrValues}

\* What a practitioner configures: type_id and attributes are required,
\* has_avatar and avatar_uuid optional.
Configs ==
    [TypeId : {StringValue(t) : t \in TypeIds},
     Attributes : {A \in SUBSET ConfigAttributes : Cardinality(A) <= MaxAttributes},
     HasAvatar : {BoolNull, BoolValue(TRUE)},
     AvatarUuid : {StringNull}]

\* Configurations that differ in their attribute set only.
AttributeConfigs ==
    {c \in Configs : c.TypeId = StringValue("117") /\ c.HasAvatar = BoolNull}

\* The two configurations of the acceptance test: type 117 with a name and
\* a number, without and with has_avatar.
AcceptanceConfigs ==
    {[TypeId |-> StringValue("117"),
      Attributes |-> {objectAttrResourceModel("1087", "My Phone"),
                      objectAttrResourceModel("1090", "1234657890")},
      HasAvatar |-> h, AvatarUuid |-> StringNull] : h \in {BoolNull, BoolValue(TRUE)}}

\* The elements of a set in the order the framework hands them to a slice.
RECURSIVE SetToSeq(_)
SetToSeq(S) ==
    IF S = {} THEN <<>>
    ELSE LET x == CHOOSE y \in S : TRUE IN <<x>> \o SetToSeq(S \ {x})
Range(q) == {q[i] : i \in 1..Len(q)}

\* The plan of a Create: the configuration, every computed attribute unknown.
CreatePlan(c) ==
    [WorkspaceId |-> StringUnknown, GlobalId |-> StringUnknown, Id |-> StringUnknown,
     Label |-> StringUnknown, ObjectKey |-> StringUnknown, Created |-> StringUnknown,
     Updated |-> StringUnknown, HasAvatar |-> c.HasAvatar, TypeId |-> c.TypeId,
     Attributes |-> SetToSeq(c.Attributes), AvatarUuid |-> c.AvatarUuid]

\* A plan of an Update whose id is not taken from the prior state.
UpdatePlanIdUnknown(c, st) ==
    [WorkspaceId |-> st.WorkspaceId, GlobalId |-> st.GlobalId, Id |-> StringUnknown,
     Label |-> st.Label, ObjectKey |-> st.ObjectKey, Created |-> st.Created,
     Updated |-> StringUnknown, HasAvatar |-> c.HasAvatar, TypeId |-> c.TypeId,
     Attributes |-> SetToSeq(c.Attributes), AvatarUuid |-> c.AvatarUuid]

\* The plan of an Update: the configuration; the computed attributes with
\* UseStateForUnknown (object_resource.go 75-134) take the prior state's
\* value, `updated` is unknown.
UpdatePlan(c, st) ==
    [WorkspaceId |-> st.WorkspaceId, GlobalId |-> st.GlobalId, Id |-> st.Id,
     Label |-> st.Label, ObjectKey |-> st.ObjectKey, Created |-> st.Created,
     Updated |-> StringUnknown, HasAvatar |-> c.HasAvatar, TypeId |-> c.TypeId,
     Attributes |-> SetToSeq(c.Attributes), AvatarUuid |-> c.AvatarUuid]

\* ---- the Assets API (external): one object, addressed by its id ----
RemoteAttribute(k, vs) == [ObjectTypeAttributeId |-> k, ObjectAttributeValues |-> vs]

\* models.ObjectScheme as the API returns it for the remote object o
ObjectScheme(o) ==
    [WorkspaceId |-> "ws", GlobalId |-> <<"ws", o.ID>>, ID |-> o.ID,
     Label |-> <<"label", o.Updated>>, ObjectKey |-> <<"KEY", o.ID>>,
     Created |-> CreationTime, Updated |-> o.Updated,
     HasAvatar |-> o.HasAvatar]

\* the values the payload carries for attribute type k, in payload order
RECURSIVE PayloadValues(_, _)
PayloadValues(attrs, k) ==
    IF attrs = <<>> THEN <<>>
    ELSE (IF Head(attrs).ObjectTypeAttributeID = k
             THEN Head(attrs).ObjectAttributeValues ELSE <<>>)
         \o PayloadValues(Tail(attrs), k)
PayloadIds(attrs) == {attrs[i].ObjectTypeAttributeID : i \in 1..Len(attrs)}

\* POST object/create: the object gets the payload's attributes.
RemoteCreate(id, payload) ==
    [ID |-> id, Updated |-> CreationTime, ObjectTypeID |-> payload.ObjectTypeID,
     HasAvatar |-> payload.HasAvatar,
     Attributes |-> {RemoteAttribute(k, PayloadValues(payload.Attributes, k)) :
                        k \in PayloadIds(payload.Attributes)}]

\* PUT object/{id}: a partial update, the attributes the payload does not
\* name keep their values.
RemoteUpdate(o, payload) ==
    [ID |-> o.ID, Updated |-> LaterTime, ObjectTypeID |-> payload.ObjectTypeID,
     HasAvatar |-> payload.HasAvatar,
     Attributes |->
        {a \in o.Attributes : a.ObjectTypeAttributeId \notin PayloadIds(payload.Attributes)}
        \cup {RemoteAttribute(k, PayloadValues(payload.Attributes, k)) :
                 k \in PayloadIds(payload.Attributes)}]

\* GET object/{id}/attributes
RemoteAttributeList(o) == SetToSeq(o.Attributes)

\* ---- the handlers of objectResource ----
\* What a handler leaves behind: resp.State, resp.Diagnostics, and whether it
\* returned or ended in a runtime panic.
Returned(st, d) == [state |-> st, diags |-> d, outcome |-> "returned"]
Fault(st, d) == [state |-> st, diags |-> d, outcome |-> "fault"]

\* req.State.Get / req.Plan.Get hand the attribute set to the model as a
\* slice; resp.State.Set turns the slice back into a set and refuses one
\* with two equal elements.
StateGet(st) == [st EXCEPT !.Attributes = SetToSeq(@)]
HasDuplicates(q) == \E i, j \in 1..Len(q) : i < j /\ q[i] = q[j]
StateSet(prior, model) ==
    IF HasDuplicates(model.Attributes)
        THEN Returned(prior, <<AttributeError("attributes", "Duplicate Set Element")>>)
        ELSE Returned([model EXCEPT !.Attributes = Range(@)], <<>>)

\* object_resource.go 159-177 and 306-324: the request body of Create and
\* of Update, one payload attribute with one value per planned attribute.
Payload(plan) ==
    [ObjectTypeID |-> ValueString(plan.TypeId),
     Attributes |->
        [i \in 1..Len(plan.Attributes) |->
            [ObjectTypeAttributeID |-> ValueString(plan.Attributes[i].AttrTypeId),
             ObjectAttributeValues |->
                <<[Value |-> ValueString(plan.Attributes[i].AttrValue)]>>]],
     HasAvatar |-> ValueBool(plan.HasAvatar),
     AvatarUUID |-> ValueString(plan.AvatarUuid)]

\* A mapping of the response that forgets the label.
PopulateComputedNoLabel(plan, object) ==
    [plan EXCEPT !.WorkspaceId = StringValue(object.WorkspaceId),
                 !.GlobalId = StringValue(object.GlobalId),
                 !.Id = StringValue(object.ID),
                 !.ObjectKey = StringValue(object.ObjectKey),
                 !.Created = StringValue(object.Created),
                 !.Updated = StringValue(object.Updated),
                 !.HasAvatar = BoolValue(object.HasAvatar)]

\* object_resource.go 198-205 and 349-356: the computed attributes of the
\* plan are set from the response body.
PopulateComputed(plan, object) ==
    [plan EXCEPT !.WorkspaceId = StringValue(object.WorkspaceId),
                 !.GlobalId = StringValue(object.GlobalId),
                 !.Id = StringValue(object.ID),
                 !.Label = StringValue(object.Label),
                 !.ObjectKey = StringValue(object.ObjectKey),
                 !.Created = StringValue(object.Created),
                 !.Updated = StringValue(object.Updated),
                 !.HasAvatar = BoolValue(object.HasAvatar)]

\* A handler that commits the plan before it looks at the error.
CreateResultCommitFirst(prior, plan, err, object) ==
    IF err THEN Returned(StateSet(prior, plan).state, <<Error("Error during object creation")>>)
    ELSE StateSet(prior, PopulateComputed(plan, object))

\* object_resource.go 150-213
CreateResult(prior, plan, err, object) ==
    IF err THEN Returned(prior, <<Error("Error during object creation")>>)    \* 180-195
    ELSE StateSet(prior, PopulateComputed(plan, object))                      \* 198-208

\* object_resource.go 294-363
UpdateResult(prior, plan, err, object) ==
    IF err THEN Returned(prior, <<Error("Error during object update")>>)      \* 331-346
    ELSE StateSet(prior, PopulateComputed(plan, object))                      \* 349-358

\* object_resource.go 366-393: on success the framework removes the state.
DeleteResult(prior, err) ==
    IF err THEN Returned(prior, <<Error("Error during object deletion")>>)    \* 377-392
    ELSE Returned(Nil, <<>>)

\* A reconciliation that maps every remote attribute, tracked or not.
MatchesAll(attr, stAttrs) ==
    IF Len(attr.ObjectAttributeValues) = 0 THEN <<>>
    ELSE <<[AttrTypeId |-> StringValue(attr.ObjectTypeAttributeId),
            AttrValue |-> StringValue(attr.ObjectAttributeValues[1].Value)]>>

\* An inner loop that copies the last value of the remote entry.
RECURSIVE MatchesLast(_, _)
MatchesLast(attr, stAttrs) ==
    IF stAttrs = <<>> THEN <<>>
    ELSE (IF Head(stAttrs).AttrTypeId = StringValue(attr.ObjectTypeAttributeId)
             THEN <<[AttrTypeId |-> StringValue(attr.ObjectTypeAttributeId),
                     AttrValue |-> StringValue(
                        attr.ObjectAttributeValues[Len(attr.ObjectAttributeValues)].Value)]>>
             ELSE <<>>)
         \o MatchesLast(attr, Tail(stAttrs))

\* object_resource.go 267-274: the inner loop, for one remote attribute.
RECURSIVE Matches(_, _)
Matches(attr, stAttrs) ==
    IF stAttrs = <<>> THEN <<>>
    ELSE (IF Head(stAttrs).AttrTypeId = StringValue(attr.ObjectTypeAttributeId)
             THEN <<[AttrTypeId |-> StringValue(attr.ObjectTypeAttributeId),
                     AttrValue |-> StringValue(attr.ObjectAttributeValues[1].Value)]>>
             ELSE <<>>)
         \o Matches(attr, Tail(stAttrs))

\* An outer loop that stops after the first remote attribute.
ReconcileFirstOnly(attrs, stAttrs) ==
    IF attrs = <<>> THEN <<>> ELSE Matches(Head(attrs), stAttrs)

\* object_resource.go 262-275: the outer loop over the remote attributes.
RECURSIVE Reconcile(_, _)
Reconcile(attrs, stAttrs) ==
    IF attrs = <<>> THEN <<>>
    ELSE Matches(Head(attrs), stAttrs) \o Reconcile(Tail(attrs), stAttrs)

\* object_resource.go 271: ObjectAttributeValues[0] of an entry without
\* values is an index out of range.
IndexOutOfRange(attrs, stAttrs) ==
    \E i \in 1..Len(attrs), j \in 1..Len(stAttrs) :
        /\ stAttrs[j].AttrTypeId = StringValue(attrs[i].ObjectTypeAttributeId)
        /\ Len(attrs[i].ObjectAttributeValues) = 0

\* A refresh that also takes the two timestamps from the response.
RefreshAllScalars(st, attributes, object) ==
    [st EXCEPT !.Attributes = attributes,
               !.WorkspaceId = StringValue(object.WorkspaceId),
               !.GlobalId = StringValue(object.GlobalId),
               !.Id = StringValue(object.ID),
               !.Label = StringValue(object.Label),
               !.ObjectKey = StringValue(object.ObjectKey),
               !.Created = StringValue(object.Created),
               !.Updated = StringValue(object.Updated),
               !.HasAvatar = BoolValue(object.HasAvatar)]

\* object_resource.go 278-284
Refresh(st, attributes, object) ==
    [st EXCEPT !.Attributes = attributes,
               !.WorkspaceId = StringValue(object.WorkspaceId),
               !.GlobalId = StringValue(object.GlobalId),
               !.Id = StringValue(object.ID),
               !.Label = StringValue(object.Label),
               !.ObjectKey = StringValue(object.ObjectKey),
               !.HasAvatar = BoolValue(object.HasAvatar)]

\* A Read that commits the scalars of the object fetch before it fetches
\* the attribute list.
ReadResultCommitsFirst(prior, getErr, object, attrsErr, attrs) ==
    LET st == StateGet(prior) IN
    IF getErr THEN Returned(prior, <<Error("Error during object reading")>>)
    ELSE IF attrsErr
        THEN Returned(StateSet(prior, Refresh(st, st.Attributes, object)).state,
                      <<Error("Error during object attributes reading")>>)
    ELSE IF IndexOutOfRange(attrs, st.Attributes) THEN Fault(prior, <<>>)
    ELSE StateSet(prior, Refresh(st, Reconcile(attrs, st.Attributes), object))

\* object_resource.go 216-291; st is the decoded prior state.
ReadResult(prior, getErr, object, attrsErr, attrs) ==
    LET st == StateGet(prior) IN
    IF getErr THEN Returned(prior, <<Error("Error during object reading")>>)  \* 227-242
    ELSE IF attrsErr
        THEN Returned(prior, <<Error("Error during object attributes reading")>>) \* 246-260
    ELSE IF IndexOutOfRange(attrs, st.Attributes) THEN Fault(prior, <<>>)     \* 271
    ELSE StateSet(prior, Refresh(st, Reconcile(attrs, st.Attributes), object)) \* 278-286

\* object_resource.go 395-397: ImportStatePassthroughID writes the id into
\* an otherwise null state.
ImportStateResult(id) ==
    Returned([WorkspaceId |-> StringNull, GlobalId |-> StringNull, Id |-> StringValue(id),
              Label |-> StringNull, ObjectKey |-> StringNull, Created |-> StringNull,
              Updated |-> StringNull, HasAvatar |-> BoolNull, TypeId |-> StringNull,
              Attributes |-> {}, AvatarUuid |-> StringNull], <<>>)

ObjectInit ==
    /\ state = Nil
    /\ remote = Nil
    /\ applied = Nil
    /\ sent = Nil
    /\ omitted = {}
    /\ call = "none"
    /\ diags = <<>>
    /\ outcome = "none"
    /\ requests = <<>>
    /\ response = Nil
    /\ failures = 0

Request(method, id) == [method |-> method, id |-> id]
\* the id a handler puts in the request path: state.Id.ValueString()
IdOf(st) == ValueString(st.Id)
\* the API resolves an id only to the object that carries it
Resolves(id) == remote # Nil /\ remote.ID = id

\* attribute type ids of a persisted attribute set
TrackedIds(st) == {ValueString(a.AttrTypeId) : a \in st.Attributes}
ConfiguredIds(c) == {ValueString(a.AttrTypeId) : a \in c.Attributes}
\* the entry (if any) the remote object holds for attribute type k
RemoteEntry(o, k) == {a \in o.Attributes : a.ObjectTypeAttributeId = k}

\* The record of a handler's invocation is kept until the next event.
NoRecord ==
    /\ call' = "none"
    /\ diags' = <<>>
    /\ outcome' = "none"
    /\ requests' = <<>>
    /\ response' = Nil
    /\ failures' = 0

Finish(op, res, reqs, resp) ==
    /\ state' = res.state
    /\ diags' = res.diags
    /\ outcome' = res.outcome
    /\ call' = op
    /\ requests' = reqs
    /\ response' = resp

\* A Read that fetches the attribute list whatever the object fetch returned.
ReadRequestsBoth(id, getErr) == <<Request("Get", id), Request("Attributes", id)>>

\* object_resource.go 226-245: the calls of a Read; the return at 241 ends
\* it before the attribute-list fetch when the object fetch fails.
ReadRequests(id, getErr) ==
    IF getErr THEN <<Request("Get", id)>>
    ELSE <<Request("Get", id), Request("Attributes", id)>>

\* terraform apply of a new resource: Create with the planned configuration.
\* keep: whether the applied configuration is recorded for later comparison.
Create(Cs, keep) ==
    /\ state = Nil
    /\ \E c \in Cs, err \in BOOLEAN, newId \in AssignedIds :
       \E plan \in {CreatePlan(c)} :
       \E payload \in {Payload(plan)} :
       \E created \in {RemoteCreate(newId, payload)} :
         LET fails == err
             object == IF fails THEN Nil ELSE ObjectScheme(created)
         IN  /\ Finish("Create", CreateResult(state, plan, fails, object),
                       <<Request("Create", 0)>>, object)
             /\ failures' = IF fails THEN 1 ELSE 0
             /\ applied' = IF fails THEN applied ELSE IF keep THEN c ELSE Nil
             /\ sent' = IF fails THEN sent ELSE IF keep THEN payload ELSE Nil
             /\ omitted' = IF fails THEN omitted ELSE {}
             /\ remote' = IF fails THEN remote ELSE created
    /\ UNCHANGED <<providerVars, schemaVars>>

\* terraform refresh: Read with the prior state.
Read ==
    /\ state # Nil
    /\ \E err1, err2 \in BOOLEAN :
         LET id == IdOf(state)
             getErr == err1 \/ ~Resolves(id)
             attrsErr == err2 \/ ~Resolves(id)
             object == IF getErr THEN Nil ELSE ObjectScheme(remote)
             attrs == IF getErr \/ attrsErr THEN <<>> ELSE RemoteAttributeList(remote)
         IN  /\ Finish("Read", ReadResult(state, getErr, object, attrsErr, attrs),
                       ReadRequests(id, getErr), object)
             /\ failures' = IF getErr \/ attrsErr THEN 1 ELSE 0
             /\ UNCHANGED <<remote, applied, sent, omitted>>
    /\ UNCHANGED <<providerVars, schemaVars>>

\* terraform apply of a changed configuration: Update with the new plan.
Update(Cs, keep) ==
    /\ state # Nil
    /\ \E err \in BOOLEAN :
       \* nothing a failed call leaves behind depends on the configuration:
       \* one configuration stands for all of them
       \E c \in IF err \/ ~Resolves(IdOf(state)) THEN {CHOOSE x \in Cs : TRUE} ELSE Cs :
       \E plan \in {UpdatePlan(c, StateGet(state))} :
       \E payload \in {Payload(plan)} :
       \E updated \in {IF remote = Nil THEN Nil ELSE RemoteUpdate(remote, payload)} :
         LET id == ValueString(plan.Id)
             fails == err \/ ~Resolves(id)
             object == IF fails THEN Nil ELSE ObjectScheme(updated)
         IN  /\ Finish("Update", UpdateResult(state, plan, fails, object),
                       <<Request("Update", id)>>, object)
             /\ failures' = IF fails THEN 1 ELSE 0
             /\ applied' = IF fails THEN applied ELSE IF keep THEN c ELSE Nil
             /\ sent' = IF fails THEN sent ELSE IF keep THEN payload ELSE Nil
             /\ omitted' = IF fails \/ ~keep THEN omitted
                           ELSE TrackedIds(state) \ ConfiguredIds(c)
             /\ remote' = IF fails THEN remote ELSE updated
    /\ UNCHANGED <<providerVars, schemaVars>>

\* terraform destroy: Delete with the prior state.
Delete ==
    /\ state # Nil
    /\ \E err \in BOOLEAN :
         LET id == IdOf(state)
             fails == err \/ ~Resolves(id)
         IN  /\ Finish("Delete", DeleteResult(state, fails),
                       <<Request("Delete", id)>>, Nil)
             /\ failures' = IF fails THEN 1 ELSE 0
             /\ applied' = IF fails THEN applied ELSE Nil
             /\ sent' = IF fails THEN sent ELSE Nil
             /\ omitted' = IF fails THEN omitted ELSE {}
             /\ remote' = IF fails THEN remote ELSE Nil
    /\ UNCHANGED <<providerVars, schemaVars>>

\* terraform import <address> <id>
ImportState ==
    /\ state = Nil
    /\ \E id \in ObjectIds :
         /\ Finish("ImportState", ImportStateResult(id), <<>>, Nil)
         /\ failures' = 0
         /\ UNCHANGED <<remote, applied, sent, omitted>>
    /\ UNCHANGED <<providerVars, schemaVars>>

\* terraform state rm: the host forgets the resource, the object stays.
Forget ==
    /\ state # Nil
    /\ state' = Nil
    /\ applied' = Nil
    /\ sent' = Nil
    /\ omitted' = {}
    /\ NoRecord
    /\ UNCHANGED remote
    /\ UNCHANGED <<providerVars, schemaVars>>

\* the values the remote object holds for attribute type k (none: no entry)
RemoteValues(o, k) ==
    IF RemoteEntry(o, k) = {} THEN <<>>
    ELSE (CHOOSE a \in RemoteEntry(o, k) : TRUE).ObjectAttributeValues

\* Somebody edits the object in Jira: one attribute is removed, emptied of
\* its values, or given one more value (up to MaxValues).
RemoteEdited ==
    /\ remote # Nil
    /\ \E k \in AttrTypeIds, edit \in {"remove", "clear"} \cup AttrValues :
         LET others == remote.Attributes \ RemoteEntry(remote, k)
             old == RemoteValues(remote, k)
             A == IF edit = "remove" THEN others
                  ELSE IF edit = "clear" THEN others \cup {RemoteAttribute(k, <<>>)}
                  ELSE others \cup {RemoteAttribute(k, Append(old, [Value |-> edit]))}
         IN  /\ edit \in AttrValues => Len(old) < MaxValues
             /\ remote' = [remote EXCEPT !.Updated = LaterTime, !.Attributes = A]
    /\ NoRecord
    /\ UNCHANGED <<state, applied, sent, omitted>>
    /\ UNCHANGED <<providerVars, schemaVars>>

\* Somebody deletes the object in Jira.
RemoteDeleted ==
    /\ remote # Nil
    /\ remote' = Nil
    /\ NoRecord
    /\ UNCHANGED <<state, applied, sent, omitted>>
    /\ UNCHANGED <<providerVars, schemaVars>>

\* The lifecycle of the resource, the object changed by the provider only.
ObjectNext ==
    \/ Create(Configs, TRUE) \/ Read \/ Update(Configs, TRUE) \/ Delete
    \/ ImportState \/ Forget
    \/ RemoteDeleted

\* The lifecycle with the object also edited in Jira, to any attribute list.
DriftNext ==
    \/ Create(AttributeConfigs, FALSE) \/ Read \/ Update(AttributeConfigs, FALSE) \/ Delete
    \/ ImportState \/ Forget \/ RemoteEdited \/ RemoteDeleted

(***************************************************************************)
(* The jiraassets_object_schema data source.                               *)
(***************************************************************************)
StatusOK == 200
StatusCodes == {StatusOK, 201, 204, 404, 500}
SchemaIds == {"100", "101"}
MaxCount == 1         \* objects and object types a schema counts at most

Int64Null == [state |-> "null", value |-> 0]
Int64Value(n) == [state |-> "known", value |-> n]

\* models.ObjectSchemaScheme as the API may return it for the id asked for
ObjectSchemaSchemes(id) ==
    [WorkspaceId : {"ws"}, GlobalId : {<<"ws", id>>}, Id : {id},
     Name : {"Phones", "Laptops"}, ObjectSchemaKey : {"PH", "LT"},
     Status : {"Ok"}, Description : {"", "hardware"},
     Created : {CreationTime}, Updated : {CreationTime, LaterTime},
     ObjectCount : 0..MaxCount, ObjectTypeCount : 0..MaxCount,
     CanManage : BOOLEAN]

\* A mapping that accepts every 2xx status.
StatusAcceptedAny2xx(code) == code >= 200 /\ code < 300

\* object_schema_datasource.go 123: only 200 is accepted.
StatusAccepted(code) == code = StatusOK

\* object_schema_datasource.go 131-144: the model built from the schema;
\* IdAsInt is not among the fields set, it keeps the zero value (null).
SchemaModel(schema) ==
    [WorkspaceId |-> StringValue(schema.WorkspaceId),
     GlobalId |-> StringValue(schema.GlobalId),
     Id |-> StringValue(schema.Id),
     Name |-> StringValue(schema.Name),
     ObjectSchemaKey |-> StringValue(schema.ObjectSchemaKey),
     Status |-> StringValue(schema.Status),
     Description |-> StringValue(schema.Description),
     Created |-> StringValue(schema.Created),
     Updated |-> StringValue(schema.Updated),
     ObjectCount |-> Int64Value(schema.ObjectCount),
     ObjectTypeCount |-> Int64Value(schema.ObjectTypeCount),
     CanManage |-> BoolValue(schema.CanManage),
     IdAsInt |-> Int64Null]

\* object_schema_datasource.go 99-152
SchemaReadResult(reply) ==
    IF reply.err
        THEN [state |-> Nil, diags |-> <<Error("Unable to read Assets object schema")>>]   \* 114-120
    ELSE IF ~StatusAccepted(reply.StatusCode)
        THEN [state |-> Nil,
              diags |-> <<Error("Unexpected HTTP status code from Assets API")>>]          \* 123-129
    ELSE [state |-> SchemaModel(reply.schema), diags |-> <<>>]                            \* 131-147

SchemaInit ==
    /\ dsConfig = Nil
    /\ dsReply = Nil
    /\ dsState = Nil
    /\ dsDiags = <<>>
    /\ dsRequests = <<>>
    /\ dsPc = "start"

\* The host reads the data source once per plan; the API answers with an
\* error, or with a status code and a schema.
SchemaRead ==
    /\ dsPc = "start"
    /\ \E id \in SchemaIds, err \in BOOLEAN, code \in StatusCodes :
       \E schema \in ObjectSchemaSchemes(id) :
         LET reply == IF err THEN [err |-> TRUE, StatusCode |-> code, schema |-> Nil]
                      ELSE [err |-> FALSE, StatusCode |-> code, schema |-> schema]
             res == SchemaReadResult(reply)
         IN  /\ dsConfig' = [Id |-> StringValue(id)]
             /\ dsReply' = reply
             /\ dsState' = res.state
             /\ dsDiags' = res.diags
             /\ dsRequests' = <<Request("ObjectSchema.Get", id)>>
             /\ dsPc' = "returned"
    /\ UNCHANGED <<providerVars, objectVars>>

ProviderInit ==
    /\ config = [WorkspaceId |-> StringNull, User |-> StringNull, Password |-> StringNull]
    /\ env = [JIRAASSETS_WORKSPACE_ID |-> "", JIRAASSETS_USER |-> "", JIRAASSETS_PASSWORD |-> ""]
    /\ newFails = FALSE
    /\ resolved = NotResolved
    /\ cfgDiags = <<>>
    /\ cfgPc = "start"
    /\ client = Nil
    /\ ResourceData = Nil
    /\ DataSourceData = Nil

\* The host calls Configure once per provider instance, with some
\* configuration, under some environment.
Configure ==
    /\ cfgPc = "start"
    /\ \E c \in JiraAssetsProviderModel, e \in Environment, n \in BOOLEAN :
         LET res == ConfigureResult(c, e, n) IN
         /\ config' = c
         /\ env' = e
         /\ newFails' = n
         /\ resolved' = res.resolved
         /\ cfgDiags' = res.diags
         /\ cfgPc' = res.pc
         /\ client' = res.client
         /\ ResourceData' = res.ResourceData
         /\ DataSourceData' = res.DataSourceData
    /\ UNCHANGED <<objectVars, schemaVars>>

Init == ProviderInit /\ ObjectInit /\ SchemaInit

ProviderNext == Configure

SpecProvider == Init /\ [][ProviderNext]_vars

Next == ObjectNext

Spec == Init /\ [][Next]_vars

SpecDrift == Init /\ [][DriftNext]_vars

SchemaNext == SchemaRead

SpecSchema == Init /\ [][SchemaNext]_vars

\* Every operation that calls the Assets API, on the object of the
\* acceptance test and on the data source.
CallsNext ==
    \/ Create(AcceptanceConfigs, FALSE) \/ Read \/ Update(AcceptanceConfigs, FALSE)
    \/ Delete \/ RemoteDeleted \/ SchemaRead

SpecCalls == Init /\ [][CallsNext]_vars

(***************************************************************************)
(* Claims about Provider Configure (checked under SpecProvider).           *)
(***************************************************************************)
ProviderFields == {"workspaceId", "user", "password"}
ConfigOf(f) ==
    CASE f = "workspaceId" -> config.WorkspaceId
      [] f = "user" -> config.User
      [] f = "password" -> config.Password
EnvOf(f) ==
    CASE f = "workspaceId" -> env.JIRAASSETS_WORKSPACE_ID
      [] f = "user" -> env.JIRAASSETS_USER
      [] f = "password" -> env.JIRAASSETS_PASSWORD
\* explicit value when one is given, otherwise the environment, otherwise empty
Precedence(f) ==
    IF ConfigOf(f).state = "null" THEN EnvOf(f) ELSE ConfigOf(f).value
AnyUnknown == \E f \in ProviderFields : ConfigOf(f).state = "unknown"
MissingFields ==
    {f \in ProviderFields : ConfigOf(f).state # "unknown" /\ Precedence(f) = ""}
Published(ws, u, p) ==
    [kind |-> "providerClient", workspaceId |-> ws,
     client |-> [kind |-> "client", authSet |-> TRUE, user |-> u, password |-> p]]
ConfigureSucceeded ==
    /\ cfgPc = "returned"
    /\ ~HasError(cfgDiags)
    /\ ResourceData = Published(Precedence("workspaceId"), Precedence("user"), Precedence("password"))
    /\ DataSourceData = ResourceData

MissingError(f) ==
    CASE f = "workspaceId" -> AttributeError("workspaceId", "Missing Assets API Workspace Id")
      [] f = "user" -> AttributeError("user", "Missing Assets API User")
      [] f = "password" -> AttributeError("password", "Missing Assets API Password")
OneErrorPerMissingField ==
    /\ HasError(cfgDiags)
    /\ Len(cfgDiags) = Cardinality(MissingFields)
    /\ {cfgDiags[i] : i \in 1..Len(cfgDiags)} = {MissingError(f) : f \in MissingFields}

\* C2 (as stated): for every non-empty set of fields that resolve to empty,
\* Configure fails with exactly one error per missing field, each naming a
\* different field, all reported by the same invocation.
C2_Original ==
    (cfgPc # "start" /\ MissingFields # {}) => OneErrorPerMissingField

\* C2 (amended): the same, provided none of the three configured values is
\* unknown (an unknown value makes Configure return before the check for
\* missing values, with the unknown-value errors only).
C2_OneErrorPerMissingField ==
    (cfgPc # "start" /\ MissingFields # {} /\ ~AnyUnknown) =>
        /\ OneErrorPerMissingField
        /\ cfgPc = "returned" /\ ResourceData = Nil /\ DataSourceData = Nil

\* C2 witness: user and password are both missing, the workspace id is set;
\* two errors are reported.
C2_Witness ==
    /\ cfgPc = "returned"
    /\ ~AnyUnknown
    /\ MissingFields = {"user", "password"}
    /\ Len(cfgDiags) = 2

\* C3: whenever Configure reports an error diagnostic (unknown value,
\* missing value, failure constructing the client) the operation is
\* aborted: it returns with no client published as resource or data-source
\* data and no credentials set on a client.
C3_ErrorAborts ==
    HasError(cfgDiags) =>
        /\ cfgPc = "returned"
        /\ ResourceData = Nil /\ DataSourceData = Nil
        /\ (client = Nil \/ ~client.authSet)

(***************************************************************************)
(* Claims about the object resource (Spec, SpecDrift).                     *)
(***************************************************************************)
Succeeded(op) == call = op /\ outcome = "returned" /\ ~HasError(diags)
Failed(op) == call = op /\ outcome = "returned" /\ HasError(diags)

\* the eight server-computed fields of the state equal the response's
ComputedFromResponse ==
    /\ state.WorkspaceId = StringValue(response.WorkspaceId)
    /\ state.GlobalId = StringValue(response.GlobalId)
    /\ state.Id = StringValue(response.ID)
    /\ state.Label = StringValue(response.Label)
    /\ state.ObjectKey = StringValue(response.ObjectKey)
    /\ state.Created = StringValue(response.Created)
    /\ state.Updated = StringValue(response.Updated)
    /\ state.HasAvatar = BoolValue(response.HasAvatar)

\* C4: after a successful Create or Update the persisted state holds the
\* planned type id and the planned attribute set unchanged, and every
\* server-computed field equals the value in the response of that call.
C4_StateAfterApply ==
    (Succeeded("Create") \/ Succeeded("Update")) =>
        /\ state # Nil
        /\ state.TypeId = applied.TypeId
        /\ state.Attributes = applied.Attributes
        /\ ComputedFromResponse

\* C4 witness: an Update succeeded with a non-empty attribute set and the
\* response carries the later timestamp.
C4_Witness ==
    /\ Succeeded("Update")
    /\ applied.Attributes # {}
    /\ response.Updated = LaterTime
    /\ state.Updated = StringValue(LaterTime)

\* C5: if the remote call of Create, Update or Delete returns an error, the
\* persisted state after the operation equals the state before it (none
\* for Create, the object still in state for Delete).
C5_NoPartialCommit ==
    [][(call' \in {"Create", "Update", "Delete"} /\ HasError(diags')) =>
          /\ state' = state
          /\ (call' = "Create" => state' = Nil)
          /\ (call' = "Delete" => state' # Nil)]_vars

\* C5 witness: a Delete failed and the object is still in state.
C5_Witness ==
    /\ Failed("Delete")
    /\ state # Nil
    /\ requests = <<Request("Delete", IdOf(state))>>

\* C6: after a successful Read every attribute type id of the resulting
\* state was in the state before the Read, whatever the remote list holds.
C6_ReadAddsNoAttribute ==
    [][(call' = "Read" /\ outcome' = "returned" /\ ~HasError(diags')) =>
          TrackedIds(state') \subseteq TrackedIds(state)]_vars

\* C6 witness: a Read succeeded, kept a tracked attribute, and the remote
\* object holds a value for an attribute type the state does not track.
C6_Witness ==
    /\ Succeeded("Read")
    /\ state.Attributes # {}
    /\ \E a \in remote.Attributes :
         /\ a.ObjectTypeAttributeId \notin TrackedIds(state)
         /\ Len(a.ObjectAttributeValues) > 0

\* C7: on every successful Read all server-computed scalar fields of the
\* state (workspace id, global id, id, label, object key, created, updated,
\* has-avatar) hold the latest remote values.
C7_ReadRefreshesScalars ==
    Succeeded("Read") => ComputedFromResponse

\* C8: an Update whose configuration omits a tracked attribute type id k
\* sends one Update request carrying the configured attributes only; the
\* remote object keeps its entry for k; and after a following Read the
\* state does not contain k.
C8_OmittedAttribute ==
    [][/\ (call' = "Update" /\ outcome' = "returned" /\ ~HasError(diags')) =>
            /\ requests' = <<Request("Update", IdOf(state))>>
            /\ PayloadIds(sent'.Attributes) = ConfiguredIds(applied')
            /\ \A k \in omitted' :
                  /\ k \in TrackedIds(state)
                  /\ k \notin PayloadIds(sent'.Attributes)
                  /\ RemoteEntry(remote', k) = RemoteEntry(remote, k)
       /\ (call' = "Read" /\ outcome' = "returned" /\ ~HasError(diags')) =>
            omitted' \cap TrackedIds(state') = {}]_vars

\* C8 witness: after an Update that omitted k and a successful Read, the
\* remote object still holds k and the state does not.
C8_Witness ==
    /\ Succeeded("Read")
    /\ \E k \in omitted :
         /\ RemoteEntry(remote, k) # {}
         /\ k \notin TrackedIds(state)
    /\ state.Attributes # {}

\* C11: the type id of an object is immutable once the object is created:
\* no successful Update or Read changes the type id of the persisted state,
\* and the type id an Update sends to the remote system is the one the
\* state held (the one given at Create).
C11_TypeIdImmutable ==
    [][(/\ call' \in {"Update", "Read"}
        /\ outcome' = "returned" /\ ~HasError(diags')
        /\ state # Nil /\ state.TypeId # StringNull) =>
          /\ state'.TypeId = state.TypeId
          /\ (call' = "Update" => sent'.ObjectTypeID = ValueString(state.TypeId))]_vars

\* C12: the object id is assigned by the remote system at Create and is
\* immutable afterwards: a successful Create stores the id of its response,
\* no Read or Update, successful or failed, changes the id of the persisted
\* state, and every request of Read, Update and Delete is keyed by it.
C12_IdImmutable ==
    [][/\ (call' = "Create" /\ outcome' = "returned" /\ ~HasError(diags')) =>
            /\ state'.Id = StringValue(response'.ID)
            /\ response'.ID \in AssignedIds
       /\ (call' \in {"Read", "Update", "Delete"}) =>
            /\ requests' # <<>>
            /\ \A i \in 1..Len(requests') : requests'[i].id = IdOf(state)
            /\ (state' # Nil => state'.Id = state.Id)]_vars

\* C12 witness: a Read failed on an object that was created and then
\* updated; the state still holds the id the remote object carries.
C12_Witness ==
    /\ Failed("Read")
    /\ state.Updated = StringValue(LaterTime)
    /\ remote # Nil /\ state.Id = StringValue(remote.ID)
    /\ requests = <<Request("Get", remote.ID)>>

\* the entries of an attribute set carry pairwise distinct attribute type ids
DistinctIds(A) == \A x, y \in A : x.AttrTypeId = y.AttrTypeId => x = y

\* C13: a Create with n configured attributes of distinct attribute type
\* ids, followed by a Read against the remote object as the Create left it,
\* yields a state whose attribute set has exactly n entries, equal to the
\* configured (attr_type_id, attr_value) pairs, with or without has_avatar.
C13_NoDriftAfterCreate ==
    [][(/\ call = "Create" /\ outcome = "returned" /\ ~HasError(diags)
        /\ DistinctIds(applied.Attributes)
        /\ call' = "Read" /\ outcome' = "returned" /\ ~HasError(diags')) =>
          /\ state'.Attributes = applied.Attributes
          /\ Cardinality(state'.Attributes) = Cardinality(applied.Attributes)]_vars

\* C13 witness: a Read succeeded on a created object (never updated) with
\* has_avatar set, and the state holds the two configured attributes.
C13_Witness ==
    /\ Succeeded("Read")
    /\ state.Updated = StringValue(CreationTime)
    /\ applied.HasAvatar = BoolValue(TRUE)
    /\ DistinctIds(applied.Attributes)
    /\ Cardinality(applied.Attributes) = 2
    /\ state.Attributes = applied.Attributes

\* the pairs (k, v): k tracked by the state st and held by the remote
\* object o, v the first value of o's entry for k
FirstValuePairs(st, o) ==
    {objectAttrResourceModel(k, RemoteValues(o, k)[1].Value) :
        k \in {x \in TrackedIds(st) : RemoteEntry(o, x) # {}}}

\* C14: after a successful Read the attribute set of the state is exactly
\* the set of pairs (k, v), k an attribute type id tracked in the prior
\* state with an entry in the remote attribute list, v the first value of
\* that entry; a tracked id without a remote entry is dropped.
C14_ReadReconciles ==
    [][(call' = "Read" /\ outcome' = "returned" /\ ~HasError(diags')) =>
          state'.Attributes = FirstValuePairs(state, remote)]_vars

\* C14 witness: a Read succeeded; the state holds the first of two
\* different values of a remote entry, and nothing else.
C14_Witness ==
    /\ Succeeded("Read")
    /\ \E a \in remote.Attributes :
         /\ Len(a.ObjectAttributeValues) = 2
         /\ a.ObjectAttributeValues[1] # a.ObjectAttributeValues[2]
         /\ state.Attributes =
               {objectAttrResourceModel(a.ObjectTypeAttributeId,
                                        a.ObjectAttributeValues[1].Value)}

\* C15: no operation retries and a remote-call error is reported once:
\* Create, Update, Delete and the schema Read issue at most one remote
\* call; the object Read at most one object fetch followed by at most one
\* attribute-list fetch, the latter not issued when the former fails; an
\* operation with a failing remote call adds exactly one error diagnostic.
C15_NoRetryOneError ==
    /\ call \in {"Create", "Update", "Delete"} =>
          /\ Len(requests) <= 1
          /\ \A i \in 1..Len(requests) : requests[i].method = call
    /\ call = "Read" =>
          /\ Len(requests) <= 2
          /\ Len(requests) >= 1 => requests[1].method = "Get"
          /\ Len(requests) = 2 => requests[2].method = "Attributes"
          /\ response = Nil => Len(requests) <= 1
    /\ failures > 0 =>
          /\ failures = 1
          /\ outcome = "returned"
          /\ Len(diags) = 1 /\ HasError(diags)
    /\ dsPc = "returned" =>
          /\ Len(dsRequests) <= 1
          /\ dsReply.err => (Len(dsDiags) = 1 /\ HasError(dsDiags))

\* C15 witness: a Read whose object fetch succeeded and whose
\* attribute-list fetch failed, and a schema Read whose call failed.
C15_Witness ==
    /\ call = "Read" /\ failures = 1
    /\ response # Nil /\ Len(requests) = 2
    /\ Len(diags) = 1
    /\ dsPc = "returned" /\ dsReply.err
    /\ Len(dsRequests) = 1 /\ Len(dsDiags) = 1

\* C16: a Read whose object fetch errors (the persisted id no longer
\* resolves, for one), or whose attribute-list fetch errors after the object
\* fetch succeeded, ends with an error diagnostic and leaves the persisted
\* state exactly as it was: the object stays in state and nothing of the
\* first call's response is committed.
C16_ReadErrorKeepsState ==
    [][(call' = "Read" /\ failures' > 0) =>
          /\ outcome' = "returned" /\ HasError(diags')
          /\ state' = state
          /\ state' # Nil]_vars

\* C16 witness: the attribute-list fetch of a Read failed after the object
\* fetch returned a label that differs from the one in state.
C16_Witness ==
    /\ call = "Read" /\ failures = 1 /\ HasError(diags)
    /\ Len(requests) = 2 /\ response # Nil
    /\ state # Nil /\ state.Label.state = "known"
    /\ state.Label # StringValue(response.Label)

\* C17: after ImportState(id) followed by a successful Read the id of the
\* state is the imported id, the scalar fields Read refreshes come from the
\* remote object, and the attribute set of the state is empty whatever
\* attributes the remote object holds.
C17_ImportThenRead ==
    [][(/\ call = "ImportState"
        /\ call' = "Read" /\ outcome' = "returned" /\ ~HasError(diags')) =>
          /\ state'.Id = state.Id
          /\ response'.ID = IdOf(state)
          /\ state'.WorkspaceId = StringValue(response'.WorkspaceId)
          /\ state'.GlobalId = StringValue(response'.GlobalId)
          /\ state'.Label = StringValue(response'.Label)
          /\ state'.ObjectKey = StringValue(response'.ObjectKey)
          /\ state'.HasAvatar = BoolValue(response'.HasAvatar)
          /\ state'.Attributes = {}]_vars

\* C17 witness: a Read succeeded on an imported object (its type id was
\* never configured); the remote object holds an attribute with a value and
\* the state holds the remote label and no attribute.
C17_Witness ==
    /\ Succeeded("Read")
    /\ state.TypeId = StringNull
    /\ state.Id = StringValue(remote.ID)
    /\ state.Label = StringValue(response.Label)
    /\ state.Attributes = {}
    /\ \E a \in remote.Attributes : Len(a.ObjectAttributeValues) > 0

\* C18: in every persisted state reachable through Create, Read and Update
\* the attribute set is keyed by attribute type id: no two entries share an
\* attr_type_id (entries being the elements of a set, no two are the same
\* pair).
C18_KeyedByTypeId ==
    state # Nil => DistinctIds(state.Attributes)

\* C19: a Read whose two remote calls both succeed ends by setting the
\* state or by adding an error diagnostic, never in a runtime fault,
\* whatever the remote attribute list holds, an entry for a tracked
\* attribute type id with an empty list of values included.
C19_ReadNeverFaults ==
    (call = "Read" /\ failures = 0) =>
        /\ outcome = "returned"
        /\ (HasError(diags) \/ state # Nil)

(***************************************************************************)
(* Claims about the object-schema data source (SpecSchema).                *)
(***************************************************************************)
\* C9: the data source Read adds an error and sets no state whenever the
\* call errors or the status code is not exactly 200 (201 and 404
\* included); state is set only for a call that succeeds with status 200.
C9_OnlyStatus200 ==
    dsPc = "returned" =>
        /\ (dsReply.err \/ dsReply.StatusCode # 200) => (HasError(dsDiags) /\ dsState = Nil)
        /\ dsState # Nil => (~dsReply.err /\ dsReply.StatusCode = 200)

\* C9 witness: the call succeeded with status 201 and the Read failed.
C9_Witness ==
    /\ dsPc = "returned"
    /\ ~dsReply.err /\ dsReply.StatusCode = 201
    /\ HasError(dsDiags) /\ dsState = Nil

\* C10: on a successful (status 200) Read all twelve computed fields are
\* populated from the remote schema, none is left null.
C10_AllTwelvePopulated ==
    (dsPc = "returned" /\ ~dsReply.err /\ dsReply.StatusCode = 200) =>
        /\ dsState # Nil
        /\ dsState.WorkspaceId = StringValue(dsReply.schema.WorkspaceId)
        /\ dsState.GlobalId = StringValue(dsReply.schema.GlobalId)
        /\ dsState.Name = StringValue(dsReply.schema.Name)
        /\ dsState.ObjectSchemaKey = StringValue(dsReply.schema.ObjectSchemaKey)
        /\ dsState.Status = StringValue(dsReply.schema.Status)
        /\ dsState.Description = StringValue(dsReply.schema.Description)
        /\ dsState.Created = StringValue(dsReply.schema.Created)
        /\ dsState.Updated = StringValue(dsReply.schema.Updated)
        /\ dsState.ObjectCount = Int64Value(dsReply.schema.ObjectCount)
        /\ dsState.ObjectTypeCount = Int64Value(dsReply.schema.ObjectTypeCount)
        /\ dsState.CanManage = BoolValue(dsReply.schema.CanManage)
        /\ dsState.IdAsInt.state = "known"

====
